---- MODULE Spec2Model ----
(***************************************************************************)
(* The three trading agents of PRIME (InitialOrderAgent "Ladder",          *)
(* ZI_market_order_agent "Directional", MomentumAgent "Momentum") as one   *)
(* state machine.  One agent instance is modelled per behaviour; its class *)
(* is chosen in Init (variable kind).  The discrete-event kernel and the   *)
(* exchange are the environment: they deliver the wakeups the agent has    *)
(* scheduled and the messages that answer its requests.                    *)
(*                                                                         *)
(* A mid-price may be half-integral: the window holds mid-prices doubled,   *)
(* so that all arithmetic is integral.                                     *)
(***************************************************************************)
EXTENDS Integers, Sequences, FiniteSets

\* ---------------------------------------------------------------- bounds

\* Largest number of spread requests the kernel holds undelivered.
MaxOutstanding == 2
\* Cap of the Directional agent's order counters.
MaxOrders == 2
\* Window lengths of the Momentum agent (constructor parameters).
ShortDuration == 2
LongDuration == 3
\* Largest resting size in a snapshot.
MaxDepth == 4

\* getWakeFrequency calls of the Ladder are counted up to this number.
MaxWakeCalls == 3
\* Longest argument of a direct call of MomentumAgent.ma.
MaxMaLen == 4
\* Largest number of entries of self.orders in a direct call of cancelOrders.
MaxOpenOrders == 4

\* q_max, the maximum holdings (constructor parameter): theta has 3 * q_max
\* entries.
QMax == 1

\* Number of mid-price samples a behaviour may observe.
MaxSamples == LongDuration + 2

\* ------------------------------------------------------ program constants

\* range(1, 100) of InitialOrderAgent.placeOrder: offsets 1..99.
LadderLevels == 99
\* np.min([i + 1, 5])
LadderSizeCap == 5
\* MomentumAgent(margin=0)
Margin == 0
\* MomentumAgent(min_size=50, max_size=100)
MinSize == 50
MaxSize == 100

\* r_bar, the fundamental mean (constructor default).
RBar == 100000

\* Python's None, where the program holds a number or None.
NoneVal == 0 - 1

Kinds == {"Ladder", "Directional", "Momentum"}
Phases == {"INACTIVE", "AWAITING_WAKEUP", "AWAITING_SPREAD", "ACTIVE"}

\* ----------------------------------------------------------- input sets

\* Best bid / best ask prices a snapshot may carry (NoneVal: side empty).
Bids == {NoneVal, 99}
Asks == {NoneVal, 101, 107}
\* Resting sizes at the best price.
Depths == {0, MaxDepth}
\* Prices the oracle's observeDiscretePrice may return (integer prices).
OracleSamples == {99, 100, 104}
\* Rounded normal draws of the constructor, before sorting: two arrays of
\* 3 * q_max private values.
ThetaDraws ==
    {[i \in 1..(3 * QMax) |-> (i % 3) - 1],
     [i \in 1..(3 * QMax) |-> 2 * ((i + 1) % 2)]}
\* Entries of the array a direct call of MomentumAgent.ma is given.
MaValues == {0, 199, 206}

\* ------------------------------------------------------- pure functions

\* np.round / round of num/den (num >= 0, den > 0): to nearest, ties to even.
RoundHalfEven(num, den) ==
    LET q == num \div den
        r == num % den
    IN  IF 2 * r < den THEN q
        ELSE IF 2 * r > den THEN q + 1
        ELSE IF q % 2 = 0 THEN q ELSE q + 1

\* The least n with round(n ** 0.35) = k, for k = 1..8.
PowThresholds == <<1, 4, 14, 36, 74, 131, 211, 317>>

\* np.round(n ** 0.35) for 0 <= n < 445.
PowRound(n) ==
    Cardinality({k \in 1..Len(PowThresholds) : PowThresholds[k] <= n})

Min(a, b) == IF a <= b THEN a ELSE b

RECURSIVE SumSeq(_)
SumSeq(s) == IF s = <<>> THEN 0 ELSE s[1] + SumSeq(Tail(s))

\* np.cumsum(a)
CumSum(a) == [k \in 1..Len(a) |-> SumSeq(SubSeq(a, 1, k))]

\* ma with its window one sample short: ret[n-1:] - ret[:-(n-1)].
MaTimesN_ShortWindow(a, n) ==
    LET ret == CumSum(a)
        dif == [k \in 1..Len(a) |->
                   IF k > n THEN ret[k] - ret[k - n + 1] ELSE ret[k]]
    IN  SubSeq(dif, n, Len(a))

\* MomentumAgent.ma(a, n), without the final division by n: entry k is n times
\* the k-th moving average (the caller divides).
MaTimesN(a, n) ==
    LET ret == CumSum(a)
        dif == [k \in 1..Len(a) |-> IF k > n THEN ret[k] - ret[k - n] ELSE ret[k]]
    IN  SubSeq(dif, n, Len(a))

\* MomentumAgent.ma(mid_list, n)[-1].round(0) on doubled mid-prices.
LastMaRounded(mids2, n) ==
    LET m == MaTimesN(mids2, n)
    IN  RoundHalfEven(m[Len(m)], 2 * n)

RECURSIVE InsertDesc(_, _)
InsertDesc(x, s) ==
    IF s = <<>> THEN <<x>>
    ELSE IF x >= s[1] THEN <<x>> \o s
    ELSE <<s[1]>> \o InsertDesc(x, Tail(s))

\* sorted(s, reverse=True)
RECURSIVE SortedDesc(_)
SortedDesc(s) ==
    IF s = <<>> THEN <<>> ELSE InsertDesc(s[1], SortedDesc(Tail(s)))

\* An order handed to placeLimitOrder / placeMarketOrder.
LimitOrder(q, buy, price) ==
    [type |-> "LIMIT", quantity |-> q, is_buy_order |-> buy, limit_price |-> price]

MarketOrder(q, buy) ==
    [type |-> "MARKET", quantity |-> q, is_buy_order |-> buy, limit_price |-> 0]

\* ---------------------------------------------------------------- state

VARIABLES
    kind,            \* the agent's class
    state,           \* self.state, the phase
    mkt_open,        \* TradingAgent: market open time is known
    mkt_close,       \* TradingAgent: market close time is known
    mkt_closed,      \* TradingAgent: the agent has been told the market closed
    close_recorded,  \* self.symbol in self.daily_close_price
    trading,         \* self.trading
    known,           \* TradingAgent: known_bids / known_asks of the symbol
    fill, cancel,    \* InitialOrderAgent: lifecycle flags
    first_run, second_run,          \* InitialOrderAgent: staged schedule
    order_size,      \* self.order_size
    order_count, buy_order_count,   \* ZI_market_order_agent: counters
    mid_list,        \* MomentumAgent: window of doubled mid-prices
    ma_short, ma_long,              \* MomentumAgent: rounded moving averages
    bidvol, askvol,  \* MomentumAgent: sizes of the last snapshot
    crashed,         \* an exception left a handler
    r_t, sigma_t,    \* Ladder, Directional: the carried priors
    theta,           \* Ladder, Directional: the private-value ladder
    exchClosed,      \* exchange: the market has closed
    pendingWakeups,  \* kernel: wakeups scheduled and not yet delivered
    outstanding,     \* kernel: spread requests not yet answered, oldest first;
                     \*   TRUE once a wakeup was handled after the request
    hoursReq,        \* kernel: market-hours queries not yet answered
    ordersEver,      \* the agent has sent an order to the exchange
    emitted,         \* orders placed by the last handler
    cancels,         \* cancelOrder calls made by the last handler
    wake_delay,      \* delay of the setWakeup of the last handler ("none": no
                     \*   setWakeup)
    lastOp,          \* the last handler: "wakeup" or "receive"
    lastMsg,         \* type of the message the last receiveMessage handled
    lastLate,        \* that message answered a request older than a wakeup
    lastPhase,       \* the phase in which the last handler started
    obs_t,           \* the last estimate updateEstimates returned
    history,         \* every doubled mid-price the Momentum agent appended
    wf_calls,        \* getWakeFrequency calls on the Ladder so far (capped)
    call,            \* a method called directly, with its arguments
    result           \* what that call returned and sent

agentVars == <<kind, state, mkt_open, mkt_close, mkt_closed, close_recorded,
               trading, known, fill, cancel, first_run, second_run, order_size,
               order_count, buy_order_count, mid_list, ma_short, ma_long,
               bidvol, askvol, crashed>>
kernelVars == <<exchClosed, pendingWakeups, outstanding, hoursReq, ordersEver>>
traceVars == <<emitted, cancels, wake_delay, lastOp, lastMsg, lastLate,
               lastPhase, obs_t, history, wf_calls>>
callVars == <<call, result>>
beliefVars == <<r_t, sigma_t, theta>>
vars == <<agentVars, kernelVars, traceVars, callVars, beliefVars>>

NoQuotes == [bid |-> NoneVal, bidsize |-> 0, ask |-> NoneVal, asksize |-> 0]

\* No method is called directly: the kernel drives the agent.
NoCall == [fn |-> "none"]
\* The direct call has not returned yet.
Pending == [done |-> FALSE]

\* __init__ of the three classes, then kernelStarting (one wakeup scheduled).
Init ==
    /\ kind \in Kinds
    /\ state = "AWAITING_WAKEUP"
    /\ mkt_open = FALSE /\ mkt_close = FALSE /\ mkt_closed = FALSE
    /\ close_recorded = FALSE
    /\ trading = FALSE
    /\ known = NoQuotes
    /\ fill = TRUE /\ cancel = FALSE
    /\ first_run = TRUE /\ second_run = TRUE
    /\ order_size \in IF kind = "Momentum" THEN {MinSize, MaxSize - 1} ELSE {1}
    /\ order_count = 0 /\ buy_order_count = 0
    /\ mid_list = <<>>
    /\ ma_short = NoneVal /\ ma_long = NoneVal
    /\ bidvol = 0 /\ askvol = 0
    /\ crashed = FALSE
    /\ r_t = (IF kind = "Momentum" THEN NoneVal ELSE RBar)
    /\ sigma_t = (IF kind = "Momentum" THEN NoneVal ELSE 0)
    /\ theta \in (IF kind = "Momentum" THEN {<<>>}
                  ELSE {SortedDesc(d) : d \in ThetaDraws})
    /\ exchClosed = FALSE
    /\ pendingWakeups = 1
    /\ outstanding = <<>>
    /\ hoursReq = {}
    /\ ordersEver = FALSE
    /\ emitted = <<>> /\ cancels = 0 /\ wake_delay = "none"
    /\ lastOp = "init" /\ lastMsg = "NONE" /\ lastLate = FALSE
    /\ lastPhase = "AWAITING_WAKEUP"
    /\ obs_t = NoneVal
    /\ history = <<>>
    /\ wf_calls = 0
    /\ call = NoCall /\ result = Pending

\* ------------------------------------------------- kernel and exchange

\* Snapshots a QUERY_SPREAD response may carry: an empty side has size 0.
Quotes ==
    {q \in [bid : Bids, bidsize : Depths, ask : Asks, asksize : Depths] :
        /\ (q.bid = NoneVal => q.bidsize = 0)
        /\ (q.ask = NoneVal => q.asksize = 0)}

SpreadMsgs == [msg : {"QUERY_SPREAD"}, mkt_closed : BOOLEAN, quotes : Quotes]

OtherMsgs ==
    [msg : {"WHEN_MKT_OPEN", "WHEN_MKT_CLOSE", "MKT_CLOSED", "ORDER_ACCEPTED"},
     mkt_closed : {FALSE}, quotes : {NoQuotes}]

Messages == SpreadMsgs \cup OtherMsgs

\* The messages the kernel can deliver to the agent now.
Deliverable(m) ==
    CASE m.msg = "QUERY_SPREAD" ->
            outstanding # <<>> /\ (m.mkt_closed => exchClosed)
      [] m.msg \in {"WHEN_MKT_OPEN", "WHEN_MKT_CLOSE"} -> m.msg \in hoursReq
      [] m.msg = "MKT_CLOSED" -> exchClosed /\ ordersEver
      [] OTHER -> ordersEver

\* The kernel's queues once m is delivered.
AfterDelivery(m) ==
    [outstanding |-> IF m.msg = "QUERY_SPREAD" THEN Tail(outstanding)
                     ELSE outstanding,
     hoursReq |-> hoursReq \ {m.msg}]

\* Every request still unanswered when a wakeup is handled is now a late one.
MarkLate(reqs) == [i \in 1..Len(reqs) |-> TRUE]

\* The exchange closes the market; the agent learns of it from later messages.
ExchangeCloses ==
    /\ ~exchClosed
    /\ exchClosed' = TRUE
    /\ UNCHANGED <<agentVars, traceVars, callVars, beliefVars>>
    /\ UNCHANGED <<pendingWakeups, outstanding, hoursReq, ordersEver>>

\* ------------------------------------------------- TradingAgent (base class)

\* TradingAgent.wakeup: asks the exchange for the market hours while the open
\* time is unknown.
BaseWakeupQueries ==
    IF ~mkt_open THEN hoursReq \cup {"WHEN_MKT_OPEN", "WHEN_MKT_CLOSE"}
    ELSE hoursReq

\* TradingAgent.wakeup's result: market hours known and market not closed.
BaseCanTrade == mkt_open /\ mkt_close /\ ~mkt_closed

\* receiveMessage that sets a wakeup on every market-hours answer.
BaseReceive_WakeOnEachHour(m) ==
    LET open == mkt_open \/ m.msg = "WHEN_MKT_OPEN"
        close == mkt_close \/ m.msg = "WHEN_MKT_CLOSE"
        closed == \/ mkt_closed
                  \/ m.msg = "MKT_CLOSED"
                  \/ (m.msg = "QUERY_SPREAD" /\ m.mkt_closed)
    IN  [mkt_open |-> open,
         mkt_close |-> close,
         mkt_closed |-> closed,
         close_recorded |-> close_recorded \/ (m.msg = "QUERY_SPREAD" /\ closed),
         known |-> IF m.msg = "QUERY_SPREAD" THEN m.quotes ELSE known,
         wakeups |-> IF m.msg \in {"WHEN_MKT_OPEN", "WHEN_MKT_CLOSE"}
                     THEN 1 ELSE 0]

\* TradingAgent.receiveMessage: the bookkeeping done before the subclass body.
BaseReceive(m) ==
    LET open == mkt_open \/ m.msg = "WHEN_MKT_OPEN"
        close == mkt_close \/ m.msg = "WHEN_MKT_CLOSE"
        closed == \/ mkt_closed
                  \/ m.msg = "MKT_CLOSED"
                  \/ (m.msg = "QUERY_SPREAD" /\ m.mkt_closed)
    IN  [mkt_open |-> open,
         mkt_close |-> close,
         mkt_closed |-> closed,
         \* querySpread -> queryLastTrade records the close once mkt_closed
         close_recorded |-> close_recorded \/ (m.msg = "QUERY_SPREAD" /\ closed),
         known |-> IF m.msg = "QUERY_SPREAD" THEN m.quotes ELSE known,
         \* the first time both hours are known, a wakeup is set at market
         \* open plus the delay the agent's getWakeFrequency returns
         wakeups |-> IF (open /\ close) /\ ~(mkt_open /\ mkt_close) THEN 1 ELSE 0]

\* The type test of an instance of a subclass.
IsExactType_Subclass(k) == k \notin Kinds

\* type(self) == <the base class>: every modelled agent is an instance of
\* exactly its class.
IsExactType(k) == k \in Kinds

\* ------------------------------------------- InitialOrderAgent (Ladder)

\* getWakeFrequency whose first call clears both stage flags.
LadderGetWakeFrequency_SkipsSecond ==
    IF first_run
    THEN [delay |-> "10ns", first_run |-> FALSE, second_run |-> FALSE]
    ELSE IF second_run
    THEN [delay |-> "300000000000ns", first_run |-> FALSE, second_run |-> FALSE]
    ELSE [delay |-> "30000000000000ns", first_run |-> FALSE, second_run |-> FALSE]

\* InitialOrderAgent.getWakeFrequency: the staged delays, as the strings
\* handed to pd.Timedelta.
LadderGetWakeFrequency ==
    IF first_run
    THEN [delay |-> "10ns", first_run |-> FALSE, second_run |-> second_run]
    ELSE IF second_run
    THEN [delay |-> "300000000000ns", first_run |-> FALSE, second_run |-> FALSE]
    ELSE [delay |-> "30000000000000ns", first_run |-> FALSE, second_run |-> FALSE]

\* LadderWakeupBranch with setWakeup moved below the market-closed branch: the
\* wakeup that requests the closing spread returns before scheduling.
LadderWakeupBranch_SchedulesLate ==
    LET b == [state |-> "INACTIVE", trading |-> TRUE, wake |-> TRUE,
              request |-> FALSE, cancelReq |-> FALSE, cancel |-> cancel]
    IN  IF ~mkt_open \/ ~mkt_close
        THEN [b EXCEPT !.trading = trading, !.wake = FALSE]
        ELSE IF mkt_closed /\ close_recorded
        THEN [b EXCEPT !.wake = FALSE]
        ELSE IF mkt_closed /\ ~close_recorded
        THEN [b EXCEPT !.state = "AWAITING_SPREAD", !.request = TRUE,
                       !.wake = FALSE]
        ELSE IF cancel /\ fill
        THEN b
        ELSE IF cancel
        THEN [b EXCEPT !.state = "AWAITING_WAKEUP", !.cancelReq = TRUE]
        ELSE IF fill
        THEN [b EXCEPT !.cancel = TRUE, !.state = "AWAITING_SPREAD",
                       !.request = TRUE]
        ELSE b

\* wakeup whose fill branch sets the cancel flag and requests nothing.
LadderWakeupBranch_NoRequest ==
    LET b == [state |-> "INACTIVE", trading |-> TRUE, wake |-> TRUE,
              request |-> FALSE, cancelReq |-> FALSE, cancel |-> cancel]
    IN  IF ~mkt_open \/ ~mkt_close
        THEN [b EXCEPT !.trading = trading, !.wake = FALSE]
        ELSE IF mkt_closed /\ close_recorded
        THEN [b EXCEPT !.wake = FALSE]
        ELSE IF mkt_closed /\ ~close_recorded
        THEN [b EXCEPT !.state = "AWAITING_SPREAD", !.request = TRUE]
        ELSE IF cancel /\ fill
        THEN b
        ELSE IF cancel
        THEN [b EXCEPT !.state = "AWAITING_WAKEUP", !.cancelReq = TRUE]
        ELSE IF fill
        THEN [b EXCEPT !.cancel = TRUE, !.state = "ACTIVE"]
        ELSE b

\* wakeup without the test that fill and cancel are both true.
LadderWakeupBranch_NoFlagTest ==
    LET b == [state |-> "INACTIVE", trading |-> TRUE, wake |-> TRUE,
              request |-> FALSE, cancelReq |-> FALSE, cancel |-> cancel]
    IN  IF ~mkt_open \/ ~mkt_close
        THEN [b EXCEPT !.trading = trading, !.wake = FALSE]
        ELSE IF mkt_closed /\ close_recorded
        THEN [b EXCEPT !.wake = FALSE]
        ELSE IF mkt_closed /\ ~close_recorded
        THEN [b EXCEPT !.state = "AWAITING_SPREAD", !.request = TRUE]
        ELSE IF cancel
        THEN [b EXCEPT !.state = "AWAITING_WAKEUP", !.cancelReq = TRUE]
        ELSE IF fill
        THEN [b EXCEPT !.cancel = TRUE, !.state = "AWAITING_SPREAD",
                       !.request = TRUE]
        ELSE b

\* wakeup whose fill branch leaves the cancel flag as it is.
LadderWakeupBranch_CancelNotSet ==
    LET b == [state |-> "INACTIVE", trading |-> TRUE, wake |-> TRUE,
              request |-> FALSE, cancelReq |-> FALSE, cancel |-> cancel]
    IN  IF ~mkt_open \/ ~mkt_close
        THEN [b EXCEPT !.trading = trading, !.wake = FALSE]
        ELSE IF mkt_closed /\ close_recorded
        THEN [b EXCEPT !.wake = FALSE]
        ELSE IF mkt_closed /\ ~close_recorded
        THEN [b EXCEPT !.state = "AWAITING_SPREAD", !.request = TRUE]
        ELSE IF cancel /\ fill
        THEN b
        ELSE IF cancel
        THEN [b EXCEPT !.state = "AWAITING_WAKEUP", !.cancelReq = TRUE]
        ELSE IF fill
        THEN [b EXCEPT !.state = "AWAITING_SPREAD", !.request = TRUE]
        ELSE b

\* wakeup that returns after setWakeup once the closing price is recorded.
LadderWakeupBranch_WakesAfterClose ==
    LET b == [state |-> "INACTIVE", trading |-> TRUE, wake |-> TRUE,
              request |-> FALSE, cancelReq |-> FALSE, cancel |-> cancel]
    IN  IF ~mkt_open \/ ~mkt_close
        THEN [b EXCEPT !.trading = trading, !.wake = FALSE]
        ELSE IF mkt_closed /\ close_recorded
        THEN b
        ELSE IF mkt_closed /\ ~close_recorded
        THEN [b EXCEPT !.state = "AWAITING_SPREAD", !.request = TRUE]
        ELSE IF cancel /\ fill
        THEN b
        ELSE IF cancel
        THEN [b EXCEPT !.state = "AWAITING_WAKEUP", !.cancelReq = TRUE]
        ELSE IF fill
        THEN [b EXCEPT !.cancel = TRUE, !.state = "AWAITING_SPREAD",
                       !.request = TRUE]
        ELSE b

\* InitialOrderAgent.wakeup after super().wakeup: the branch taken and what it
\* does (wake: setWakeup called, request: getCurrentSpread called, cancelReq:
\* cancelOrders called).
LadderWakeupBranch ==
    LET b == [state |-> "INACTIVE", trading |-> TRUE, wake |-> TRUE,
              request |-> FALSE, cancelReq |-> FALSE, cancel |-> cancel]
    IN  IF ~mkt_open \/ ~mkt_close
        THEN [b EXCEPT !.trading = trading, !.wake = FALSE]
        ELSE IF mkt_closed /\ close_recorded
        THEN [b EXCEPT !.wake = FALSE]
        ELSE IF mkt_closed /\ ~close_recorded
        THEN [b EXCEPT !.state = "AWAITING_SPREAD", !.request = TRUE]
        ELSE IF cancel /\ fill
        THEN b
        ELSE IF cancel
        THEN [b EXCEPT !.state = "AWAITING_WAKEUP", !.cancelReq = TRUE]
        ELSE IF fill
        THEN IF IsExactType(kind)
             THEN [b EXCEPT !.cancel = TRUE, !.state = "AWAITING_SPREAD",
                            !.request = TRUE]
             ELSE [b EXCEPT !.cancel = TRUE, !.state = "ACTIVE"]
        ELSE b

LadderWakeup ==
    LET br == LadderWakeupBranch
        wf == LadderGetWakeFrequency
    IN  /\ kind = "Ladder" /\ ~crashed /\ pendingWakeups > 0
        /\ br.request => Len(outstanding) < MaxOutstanding
        /\ state' = br.state
        /\ trading' = br.trading
        /\ cancel' = br.cancel
        /\ first_run' = (IF br.wake THEN wf.first_run ELSE first_run)
        /\ second_run' = (IF br.wake THEN wf.second_run ELSE second_run)
        /\ wake_delay' = (IF br.wake THEN wf.delay ELSE "none")
        /\ wf_calls' = (IF br.wake THEN Min(wf_calls + 1, MaxWakeCalls)
                        ELSE wf_calls)
        /\ pendingWakeups' = pendingWakeups - 1 + (IF br.wake THEN 1 ELSE 0)
        /\ outstanding' = (IF br.request THEN Append(MarkLate(outstanding), FALSE)
                           ELSE MarkLate(outstanding))
        /\ hoursReq' = BaseWakeupQueries
        /\ cancels' = (IF br.cancelReq THEN 1 ELSE 0)
        /\ emitted' = <<>>
        /\ lastOp' = "wakeup" /\ lastMsg' = "NONE" /\ lastLate' = FALSE
        /\ lastPhase' = state
        /\ UNCHANGED <<beliefVars, callVars, kind, mkt_open, mkt_close,
                       mkt_closed, close_recorded, known, fill, order_size,
                       order_count, buy_order_count,
                       mid_list, ma_short, ma_long, bidvol, askvol, crashed,
                       exchClosed, ordersEver, obs_t, history>>

\* The samples the oracle may return to a handler: it is queried only when the
\* handler reaches placeOrder (queried); otherwise nothing is drawn.
OracleDraws(queried) ==
    IF queried THEN OracleSamples ELSE {CHOOSE r \in OracleSamples : TRUE}

\* updateEstimates that filters the sample into the priors.
BeliefAfterEstimate_Filtered(raw) ==
    [r_t |-> (r_t + raw) \div 2, sigma_t |-> sigma_t + 1, theta |-> theta]

\* updateEstimates: the belief fields once it has returned (it assigns none).
BeliefAfterEstimate(raw) ==
    [r_t |-> r_t, sigma_t |-> sigma_t, theta |-> theta]

\* updateEstimates: np.round of the oracle's sample.
UpdateEstimates(raw) == RoundHalfEven(raw, 1)

\* LadderPlaceOrder with range(0, 99) in place of range(1, 100).
LadderPlaceOrder_FromZero(p) ==
    [k \in 1..(2 * LadderLevels) |->
        LET i == ((k + 1) \div 2) - 1
            size == Min(i + 1, LadderSizeCap)
        IN  IF k % 2 = 1
            THEN LimitOrder(size, TRUE, RoundHalfEven(p, 1) - i)
            ELSE LimitOrder(size, FALSE, RoundHalfEven(p, 1) + i)]

\* InitialOrderAgent.placeOrder: the placeLimitOrder calls, in order, for the
\* estimate p.
LadderPlaceOrder(p) ==
    [k \in 1..(2 * LadderLevels) |->
        LET i == (k + 1) \div 2
            size == Min(i + 1, LadderSizeCap)
        IN  IF k % 2 = 1
            THEN LimitOrder(size, TRUE, RoundHalfEven(p, 1) - i)
            ELSE LimitOrder(size, FALSE, RoundHalfEven(p, 1) + i)]

\* InitialOrderAgent.receiveMessage after super().receiveMessage: does the
\* message start the decision cycle (closed: mkt_closed as the base left it)?
LadderReceivePlaces(m, closed) ==
    state = "AWAITING_SPREAD" /\ m.msg = "QUERY_SPREAD" /\ ~closed

LadderReceive ==
    \E m \in Messages :
      \E raw \in OracleDraws(LadderReceivePlaces(m, BaseReceive(m).mkt_closed)) :
        LET b == BaseReceive(m)
            q == AfterDelivery(m)
            places == LadderReceivePlaces(m, b.mkt_closed)
            p == UpdateEstimates(raw)
            be == BeliefAfterEstimate(raw)
            wf == LadderGetWakeFrequency
        IN  /\ kind = "Ladder" /\ ~crashed /\ Deliverable(m)
            /\ mkt_open' = b.mkt_open /\ mkt_close' = b.mkt_close
            /\ mkt_closed' = b.mkt_closed
            /\ close_recorded' = b.close_recorded
            /\ known' = b.known
            /\ pendingWakeups' = pendingWakeups + b.wakeups
            /\ outstanding' = q.outstanding /\ hoursReq' = q.hoursReq
            /\ state' = (IF places THEN "AWAITING_WAKEUP" ELSE state)
            /\ emitted' = (IF places THEN LadderPlaceOrder(p) ELSE <<>>)
            /\ order_size' = (IF places THEN Min(LadderLevels + 1, LadderSizeCap)
                              ELSE order_size)
            /\ obs_t' = (IF places THEN p ELSE obs_t)
            /\ ordersEver' = (ordersEver \/ places)
            /\ first_run' = (IF b.wakeups = 1 THEN wf.first_run ELSE first_run)
            /\ second_run' = (IF b.wakeups = 1 THEN wf.second_run
                              ELSE second_run)
            /\ wf_calls' = (IF b.wakeups = 1
                            THEN Min(wf_calls + 1, MaxWakeCalls) ELSE wf_calls)
            /\ wake_delay' = (IF b.wakeups = 1 THEN wf.delay ELSE "none")
            /\ cancels' = 0
            /\ lastOp' = "receive" /\ lastMsg' = m.msg
            /\ lastLate' = (m.msg = "QUERY_SPREAD" /\ Head(outstanding))
            /\ lastPhase' = state
            /\ r_t' = (IF places THEN be.r_t ELSE r_t)
            /\ sigma_t' = (IF places THEN be.sigma_t ELSE sigma_t)
            /\ theta' = (IF places THEN be.theta ELSE theta)
            /\ UNCHANGED <<callVars, kind, trading, fill, cancel,
                           order_count, buy_order_count, mid_list, ma_short,
                           ma_long, bidvol, askvol, crashed, exchClosed, history>>

\* ------------------------------------ ZI_market_order_agent (Directional)

\* ZI_market_order_agent.wakeup after super().wakeup: the branch taken.
\* wakeup without the return once the closing price is recorded.
DirWakeupBranch_NoFinalReturn ==
    LET b == [state |-> "INACTIVE", trading |-> TRUE, wake |-> TRUE,
              request |-> FALSE]
    IN  IF ~mkt_open \/ ~mkt_close
        THEN [b EXCEPT !.trading = trading, !.wake = FALSE]
        ELSE IF mkt_closed /\ ~close_recorded
        THEN [b EXCEPT !.state = "AWAITING_SPREAD", !.request = TRUE]
        ELSE [b EXCEPT !.state = "AWAITING_SPREAD", !.request = TRUE]

\* wakeup that schedules the next wakeup before it tests the market hours.
DirWakeupBranch_WakesBeforeHours ==
    LET b == [state |-> "INACTIVE", trading |-> TRUE, wake |-> TRUE,
              request |-> FALSE]
    IN  IF ~mkt_open \/ ~mkt_close
        THEN [b EXCEPT !.trading = trading]
        ELSE IF mkt_closed /\ close_recorded
        THEN [b EXCEPT !.wake = FALSE]
        ELSE IF mkt_closed /\ ~close_recorded
        THEN [b EXCEPT !.state = "AWAITING_SPREAD", !.request = TRUE]
        ELSE [b EXCEPT !.state = "AWAITING_SPREAD", !.request = TRUE]

DirWakeupBranch ==
    LET b == [state |-> "INACTIVE", trading |-> TRUE, wake |-> TRUE,
              request |-> FALSE]
    IN  IF ~mkt_open \/ ~mkt_close
        THEN [b EXCEPT !.trading = trading, !.wake = FALSE]
        ELSE IF mkt_closed /\ close_recorded
        THEN [b EXCEPT !.wake = FALSE]
        ELSE IF mkt_closed /\ ~close_recorded
        THEN [b EXCEPT !.state = "AWAITING_SPREAD", !.request = TRUE]
        ELSE IF IsExactType(kind)
        THEN [b EXCEPT !.state = "AWAITING_SPREAD", !.request = TRUE]
        ELSE [b EXCEPT !.state = "ACTIVE"]

\* getWakeFrequency of the Directional and Momentum agents: an exponential
\* draw from the private stream, passed through modifyWakeFrequency unchanged.
StochasticWakeFrequency == "exponential"

DirWakeup ==
    LET br == DirWakeupBranch
    IN  /\ kind = "Directional" /\ ~crashed /\ pendingWakeups > 0
        /\ br.request => Len(outstanding) < MaxOutstanding
        /\ state' = br.state
        /\ trading' = br.trading
        /\ wake_delay' = (IF br.wake THEN StochasticWakeFrequency ELSE "none")
        /\ pendingWakeups' = pendingWakeups - 1 + (IF br.wake THEN 1 ELSE 0)
        /\ outstanding' = (IF br.request THEN Append(MarkLate(outstanding), FALSE)
                           ELSE MarkLate(outstanding))
        /\ hoursReq' = BaseWakeupQueries
        /\ cancels' = 0
        /\ emitted' = <<>>
        /\ lastOp' = "wakeup" /\ lastMsg' = "NONE" /\ lastLate' = FALSE
        /\ lastPhase' = state
        /\ UNCHANGED <<beliefVars, callVars, wf_calls, kind, mkt_open,
                       mkt_close, mkt_closed, close_recorded,
                       known, fill, cancel, first_run, second_run, order_size,
                       order_count, buy_order_count, mid_list, ma_short,
                       ma_long, bidvol, askvol, crashed, exchClosed, ordersEver,
                       obs_t, history>>

\* DirPlaceOrder sizing each order from its own side of the book.
DirPlaceOrder_OwnSide(q, obs) ==
    LET none == [crash |-> FALSE, orders |-> <<>>, count |-> 0, buys |-> 0,
                 order_size |-> order_size]
    IN  IF q.bid = NoneVal \/ q.ask = NoneVal
        THEN [none EXCEPT !.crash = TRUE]
        ELSE IF 2 * obs > q.bid + q.ask
        THEN [none EXCEPT !.count = 1, !.buys = 1,
                          !.order_size = PowRound(q.bidsize),
                          !.orders = <<MarketOrder(PowRound(q.bidsize), TRUE)>>]
        ELSE IF 2 * obs < q.bid + q.ask
        THEN [none EXCEPT !.count = 1,
                          !.order_size = PowRound(q.asksize),
                          !.orders = <<MarketOrder(PowRound(q.asksize), FALSE)>>]
        ELSE none

\* DirPlaceOrder that counts a cycle whose estimate equals the mid.
DirPlaceOrder_CountsTies(q, obs) ==
    LET none == [crash |-> FALSE, orders |-> <<>>, count |-> 0, buys |-> 0,
                 order_size |-> order_size]
    IN  IF q.bid = NoneVal \/ q.ask = NoneVal
        THEN [none EXCEPT !.crash = TRUE]
        ELSE IF 2 * obs > q.bid + q.ask
        THEN [none EXCEPT !.count = 1, !.buys = 1,
                          !.order_size = PowRound(q.asksize),
                          !.orders = <<MarketOrder(PowRound(q.asksize), TRUE)>>]
        ELSE IF 2 * obs < q.bid + q.ask
        THEN [none EXCEPT !.count = 1,
                          !.order_size = PowRound(q.bidsize),
                          !.orders = <<MarketOrder(PowRound(q.bidsize), FALSE)>>]
        ELSE [none EXCEPT !.count = 1]

\* ZI_market_order_agent.placeOrder for the snapshot q (getKnownBidAsk) and the
\* estimate obs: (bid + ask)/2 raises TypeError when a side is None.
DirPlaceOrder(q, obs) ==
    LET none == [crash |-> FALSE, orders |-> <<>>, count |-> 0, buys |-> 0,
                 order_size |-> order_size]
    IN  IF q.bid = NoneVal \/ q.ask = NoneVal
        THEN [none EXCEPT !.crash = TRUE]
        ELSE IF 2 * obs > q.bid + q.ask
        THEN [none EXCEPT !.count = 1, !.buys = 1,
                          !.order_size = PowRound(q.asksize),
                          !.orders = <<MarketOrder(PowRound(q.asksize), TRUE)>>]
        ELSE IF 2 * obs < q.bid + q.ask
        THEN [none EXCEPT !.count = 1,
                          !.order_size = PowRound(q.bidsize),
                          !.orders = <<MarketOrder(PowRound(q.bidsize), FALSE)>>]
        ELSE none

\* receiveMessage without the test of the phase.
DirReceivePlaces_AnyPhase(m, closed) == m.msg = "QUERY_SPREAD" /\ ~closed

\* ZI_market_order_agent.receiveMessage after super().receiveMessage: does the
\* message start the decision cycle?
DirReceivePlaces(m, closed) ==
    state = "AWAITING_SPREAD" /\ m.msg = "QUERY_SPREAD" /\ ~closed

DirReceive ==
    \E m \in Messages :
      \E raw \in OracleDraws(DirReceivePlaces(m, BaseReceive(m).mkt_closed)) :
        LET b == BaseReceive(m)
            q == AfterDelivery(m)
            places == DirReceivePlaces(m, b.mkt_closed)
            obs == UpdateEstimates(raw)
            be == BeliefAfterEstimate(raw)
            po == DirPlaceOrder(b.known, obs)
            done == places /\ ~po.crash
        IN  /\ kind = "Directional" /\ ~crashed /\ Deliverable(m)
            /\ places => order_count < MaxOrders
            /\ mkt_open' = b.mkt_open /\ mkt_close' = b.mkt_close
            /\ mkt_closed' = b.mkt_closed
            /\ close_recorded' = b.close_recorded
            /\ known' = b.known
            /\ pendingWakeups' = pendingWakeups + b.wakeups
            /\ outstanding' = q.outstanding /\ hoursReq' = q.hoursReq
            /\ crashed' = (places /\ po.crash)
            /\ state' = (IF done THEN "AWAITING_WAKEUP" ELSE state)
            /\ emitted' = (IF done THEN po.orders ELSE <<>>)
            /\ order_size' = (IF done THEN po.order_size ELSE order_size)
            /\ order_count' = (IF done THEN order_count + po.count
                               ELSE order_count)
            /\ buy_order_count' = (IF done THEN buy_order_count + po.buys
                                   ELSE buy_order_count)
            /\ obs_t' = (IF places THEN obs ELSE obs_t)
            /\ ordersEver' = (ordersEver \/ (done /\ po.orders # <<>>))
            /\ cancels' = 0
            /\ wake_delay' = (IF b.wakeups = 1 THEN StochasticWakeFrequency
                              ELSE "none")
            /\ lastOp' = "receive" /\ lastMsg' = m.msg
            /\ lastLate' = (m.msg = "QUERY_SPREAD" /\ Head(outstanding))
            /\ lastPhase' = state
            /\ r_t' = (IF places THEN be.r_t ELSE r_t)
            /\ sigma_t' = (IF places THEN be.sigma_t ELSE sigma_t)
            /\ theta' = (IF places THEN be.theta ELSE theta)
            /\ UNCHANGED <<callVars, wf_calls, kind, trading, fill, cancel,
                           first_run, second_run,
                           mid_list, ma_short, ma_long, bidvol, askvol,
                           exchClosed, history>>

\* ------------------------------------------------ MomentumAgent (Momentum)

\* Python truthiness of a number-or-None.
Truthy(x) == x # NoneVal /\ x # 0

\* MomentumAgent.wakeup: request the spread when super().wakeup allows trading.
MomWakeup ==
    LET can_trade == BaseCanTrade
    IN  /\ kind = "Momentum" /\ ~crashed /\ pendingWakeups > 0
        /\ can_trade => Len(outstanding) < MaxOutstanding
        /\ state' = (IF can_trade THEN "AWAITING_SPREAD" ELSE state)
        /\ pendingWakeups' = pendingWakeups - 1
        /\ outstanding' = (IF can_trade THEN Append(MarkLate(outstanding), FALSE)
                           ELSE MarkLate(outstanding))
        /\ hoursReq' = BaseWakeupQueries
        /\ cancels' = 0 /\ wake_delay' = "none"
        /\ emitted' = <<>>
        /\ lastOp' = "wakeup" /\ lastMsg' = "NONE" /\ lastLate' = FALSE
        /\ lastPhase' = state
        /\ UNCHANGED <<beliefVars, callVars, wf_calls, kind, mkt_open,
                       mkt_close, mkt_closed, close_recorded,
                       trading, known, fill, cancel, first_run, second_run,
                       order_size, order_count, buy_order_count, mid_list,
                       ma_short, ma_long, bidvol, askvol, crashed, exchClosed,
                       ordersEver, obs_t, history>>

\* MomCrossover with the non-strict comparisons of the class docstring.
MomCrossover_NonStrict(s, l, bidsize, asksize) ==
    LET buyorder == PowRound(asksize)
        sellorder == PowRound(bidsize)
    IN  IF Truthy(s) /\ Truthy(l)
        THEN IF s <= l - Margin THEN <<MarketOrder(sellorder, FALSE)>>
             ELSE IF s >= l + Margin THEN <<MarketOrder(buyorder, TRUE)>>
             ELSE <<>>
        ELSE <<>>

\* The crossover rule of MomentumAgent.receiveMessage: the placeMarketOrder
\* calls for the rounded averages s (short) and l (long).
MomCrossover(s, l, bidsize, asksize) ==
    LET buyorder == PowRound(asksize)
        sellorder == PowRound(bidsize)
    IN  IF Truthy(s) /\ Truthy(l)
        THEN IF s < l - Margin THEN <<MarketOrder(sellorder, FALSE)>>
             ELSE IF s > l + Margin THEN <<MarketOrder(buyorder, TRUE)>>
             ELSE <<>>
        ELSE <<>>

\* MomDecide without mid_list.pop(0): the window is never evicted.
MomDecide_NoEvict(q) ==
    LET keep == [mid_list |-> mid_list, ma_short |-> ma_short,
                 ma_long |-> ma_long, orders |-> <<>>, sampled |-> FALSE]
    IN  IF Truthy(q.bid) /\ Truthy(q.ask)
        THEN LET appended == Append(mid_list, q.bid + q.ask)
             IN  IF Len(appended) > LongDuration
                 THEN LET s == LastMaRounded(appended, ShortDuration)
                          l == LastMaRounded(appended, LongDuration)
                      IN  [mid_list |-> appended, ma_short |-> s, ma_long |-> l,
                           orders |-> MomCrossover(s, l, q.bidsize, q.asksize),
                           sampled |-> TRUE]
                 ELSE [keep EXCEPT !.mid_list = appended, !.sampled = TRUE]
        ELSE keep

\* The body of MomentumAgent.receiveMessage under "if bid and ask" and before
\* it, for the snapshot q (getKnownBidAsk).
MomDecide(q) ==
    LET keep == [mid_list |-> mid_list, ma_short |-> ma_short,
                 ma_long |-> ma_long, orders |-> <<>>, sampled |-> FALSE]
    IN  IF Truthy(q.bid) /\ Truthy(q.ask)
        THEN LET appended == Append(mid_list, q.bid + q.ask)
             IN  IF Len(appended) > LongDuration
                 THEN LET window == Tail(appended)
                          s == LastMaRounded(window, ShortDuration)
                          l == LastMaRounded(window, LongDuration)
                      IN  [mid_list |-> window, ma_short |-> s, ma_long |-> l,
                           orders |-> MomCrossover(s, l, q.bidsize, q.asksize),
                           sampled |-> TRUE]
                 ELSE [keep EXCEPT !.mid_list = appended, !.sampled = TRUE]
        ELSE keep

\* receiveMessage without the test of the message type.
MomReceiveActs_AnyMessage(m) == state = "AWAITING_SPREAD"

\* MomentumAgent.receiveMessage after super().receiveMessage: does the message
\* start the decision cycle?
MomReceiveActs(m) == state = "AWAITING_SPREAD" /\ m.msg = "QUERY_SPREAD"

MomReceive ==
    \E m \in Messages :
        LET b == BaseReceive(m)
            q == AfterDelivery(m)
            acts == MomReceiveActs(m)
            d == MomDecide(b.known)
        IN  /\ kind = "Momentum" /\ ~crashed /\ Deliverable(m)
            /\ (acts /\ d.sampled) => Len(history) < MaxSamples
            /\ mkt_open' = b.mkt_open /\ mkt_close' = b.mkt_close
            /\ mkt_closed' = b.mkt_closed
            /\ close_recorded' = b.close_recorded
            /\ known' = b.known
            /\ outstanding' = q.outstanding /\ hoursReq' = q.hoursReq
            /\ bidvol' = (IF acts THEN b.known.bidsize ELSE bidvol)
            /\ askvol' = (IF acts THEN b.known.asksize ELSE askvol)
            /\ mid_list' = (IF acts THEN d.mid_list ELSE mid_list)
            /\ ma_short' = (IF acts THEN d.ma_short ELSE ma_short)
            /\ ma_long' = (IF acts THEN d.ma_long ELSE ma_long)
            /\ emitted' = (IF acts THEN d.orders ELSE <<>>)
            /\ history' = (IF acts /\ d.sampled
                           THEN Append(history, b.known.bid + b.known.ask)
                           ELSE history)
            /\ pendingWakeups' = pendingWakeups + b.wakeups
                                    + (IF acts THEN 1 ELSE 0)
            /\ wake_delay' = (IF acts \/ b.wakeups = 1
                              THEN StochasticWakeFrequency ELSE "none")
            /\ state' = (IF acts THEN "AWAITING_WAKEUP" ELSE state)
            /\ ordersEver' = (ordersEver \/ (acts /\ d.orders # <<>>))
            /\ cancels' = 0
            /\ lastOp' = "receive" /\ lastMsg' = m.msg
            /\ lastLate' = (m.msg = "QUERY_SPREAD" /\ Head(outstanding))
            /\ lastPhase' = state
            /\ UNCHANGED <<beliefVars, callVars, wf_calls, kind, trading,
                           fill, cancel, first_run, second_run,
                           order_size, order_count, buy_order_count, crashed,
                           exchClosed, obs_t>>

\* ------------------------------------------------------- specification

\* --------------------------------------------------------- direct calls

\* Arguments (a, n) of a direct call of MomentumAgent.ma, len(a) >= n >= 1.
MaCalls ==
    {[fn |-> "ma", a |-> a, n |-> n] :
        <<a, n>> \in {x \in (UNION {[1..l -> MaValues] : l \in 1..MaxMaLen})
                               \X (1..MaxMaLen) : x[2] <= Len(x[1])}}

\* self.orders at a direct call of cancelOrders: a dict, in insertion order,
\* of distinct order ids.
CancelCalls ==
    {[fn |-> "cancelOrders", orders |-> o] :
        o \in {x \in UNION {[1..l -> 1..MaxOpenOrders] : l \in 0..MaxOpenOrders} :
                  \A i, j \in 1..Len(x) : x[i] = x[j] => i = j}}

\* Values np.random.power(3.5) may return, as <<numerator, denominator>>: the
\* power distribution has support (0, 1].
PowerDraws == {<<1, 1>>, <<19, 20>>, <<14, 15>>, <<14, 17>>, <<7, 10>>}

\* Values random_state.rand() may return, in tenths: uniform on [0, 1).
UniformTenths == {0, 7, 8, 9}

\* The draws a direct call of getOrderSize consumes, on an agent of class cls.
SizerCalls ==
    [fn : {"getOrderSize"}, cls : {"Directional", "Momentum"},
     x : PowerDraws, u : UniformTenths]

\* A constructed agent whose method is called directly, outside the kernel.
InitCalls ==
    /\ call \in MaCalls \cup CancelCalls \cup SizerCalls
    /\ result = Pending
    /\ kind = (CASE call.fn = "ma" -> "Momentum"
                  [] call.fn = "cancelOrders" -> "Directional"
                  [] OTHER -> call.cls)
    /\ state = "AWAITING_WAKEUP"
    /\ mkt_open = FALSE /\ mkt_close = FALSE /\ mkt_closed = FALSE
    /\ close_recorded = FALSE
    /\ trading = FALSE
    /\ known = NoQuotes
    /\ fill = TRUE /\ cancel = FALSE
    /\ first_run = TRUE /\ second_run = TRUE
    /\ order_size = (IF kind = "Momentum" THEN MinSize ELSE 1)
    /\ order_count = 0 /\ buy_order_count = 0
    /\ mid_list = <<>>
    /\ ma_short = NoneVal /\ ma_long = NoneVal
    /\ bidvol = 0 /\ askvol = 0
    /\ crashed = FALSE
    /\ r_t = (IF kind = "Momentum" THEN NoneVal ELSE RBar)
    /\ sigma_t = (IF kind = "Momentum" THEN NoneVal ELSE 0)
    /\ theta \in (IF kind = "Momentum" THEN {<<>>}
                  ELSE {SortedDesc(d) : d \in ThetaDraws})
    /\ exchClosed = FALSE
    /\ pendingWakeups = 0
    /\ outstanding = <<>>
    /\ hoursReq = {}
    /\ ordersEver = FALSE
    /\ emitted = <<>> /\ cancels = 0 /\ wake_delay = "none"
    /\ lastOp = "init" /\ lastMsg = "NONE" /\ lastLate = FALSE
    /\ lastPhase = "AWAITING_WAKEUP"
    /\ obs_t = NoneVal
    /\ history = <<>>
    /\ wf_calls = 0

\* MomentumAgent.ma(a, n) is called; the result holds each entry times n.
ApplyMa ==
    /\ call.fn = "ma" /\ result = Pending
    /\ result' = [done |-> TRUE, ret |-> MaTimesN(call.a, call.n)]
    /\ UNCHANGED <<agentVars, kernelVars, traceVars, call, beliefVars>>

\* cancelOrders that returns from inside its loop.
DirCancelOrders_FirstOnly(orders) ==
    IF orders = <<>>
    THEN [ret |-> FALSE, requests |-> <<>>]
    ELSE [ret |-> TRUE, requests |-> <<orders[1]>>]

\* ZI_market_order_agent.cancelOrders: the cancelOrder calls it makes, in
\* order, and its return value.
DirCancelOrders(orders) ==
    IF orders = <<>>
    THEN [ret |-> FALSE, requests |-> <<>>]
    ELSE [ret |-> TRUE, requests |-> [i \in 1..Len(orders) |-> orders[i]]]

\* cancelOrders is called on a Directional agent.
ApplyCancelOrders ==
    LET r == DirCancelOrders(call.orders)
    IN  /\ call.fn = "cancelOrders" /\ result = Pending
        /\ result' = [done |-> TRUE, ret |-> r.ret, requests |-> r.requests]
        /\ UNCHANGED <<agentVars, kernelVars, traceVars, call, beliefVars>>

\* np.ceil(70 / X) for X = x[1] / x[2].
Candidate(x) == (70 * x[2] + x[1] - 1) \div x[1]

\* np.round(c, -1): to the nearest ten, ties to the even ten.
RoundToTens(c) == 10 * RoundHalfEven(c, 10)

\* getOrderSize that leaves the candidate unrounded.
GetOrderSize_NoRounding(x, u) ==
    LET c == Candidate(x)
    IN  [order_size |-> IF u < 8 THEN c ELSE IF c < 5 THEN c + 5 ELSE c,
         private_draws |-> 1, global_draws |-> 1]

\* getOrderSize (the same body in ZI_market_order_agent and MomentumAgent):
\* the size it stores, and how many draws it takes from self.random_state
\* (rand) and from numpy's global stream (np.random.power).
GetOrderSize(x, u) ==
    LET c == Candidate(x)
    IN  [order_size |-> IF u < 8 THEN c
                        ELSE RoundToTens(IF c < 5 THEN c + 5 ELSE c),
         private_draws |-> 1, global_draws |-> 1]

\* getOrderSize is called on a Directional or Momentum agent.
ApplyGetOrderSize ==
    LET r == GetOrderSize(call.x, call.u)
    IN  /\ call.fn = "getOrderSize" /\ result = Pending
        /\ order_size' = r.order_size
        /\ result' = [done |-> TRUE, private_draws |-> r.private_draws,
                       global_draws |-> r.global_draws]
        /\ UNCHANGED <<kind, state, mkt_open, mkt_close, mkt_closed,
                       close_recorded, trading, known, fill, cancel, first_run,
                       second_run, order_count, buy_order_count, mid_list,
                       ma_short, ma_long, bidvol, askvol, crashed>>
        /\ UNCHANGED <<kernelVars, traceVars, call, beliefVars>>

Next ==
    \/ LadderWakeup
    \/ LadderReceive
    \/ DirWakeup
    \/ DirReceive
    \/ MomWakeup
    \/ MomReceive
    \/ ExchangeCloses

Spec == Init /\ [][Next]_vars

\* The kernel delivers every wakeup an agent has scheduled: a pending wakeup
\* of the Ladder or of the Directional agent is eventually handled.
SpecFair == Spec /\ WF_vars(LadderWakeup) /\ WF_vars(DirWakeup)

\* The methods called directly.
NextCalls ==
    \/ ApplyMa
    \/ ApplyCancelOrders
    \/ ApplyGetOrderSize

SpecCalls == InitCalls /\ [][NextCalls]_vars

\* The agent under the kernel, or one of its methods called directly.
InitAll == Init \/ InitCalls

NextAll == Next \/ NextCalls

SpecAll == InitAll /\ [][NextAll]_vars

TypeOK ==
    /\ kind \in Kinds
    /\ state \in Phases
    /\ pendingWakeups \in 0..2
    /\ Len(outstanding) <= MaxOutstanding
    /\ Len(mid_list) <= LongDuration
    /\ Len(history) <= MaxSamples
    /\ wf_calls \in 0..MaxWakeCalls

\* ---------------------------------------------------------------- claims

\* The last handler was receiveMessage, started in AWAITING_SPREAD, for a
\* QUERY_SPREAD response.
SpreadResponseHandled ==
    lastOp = "receive" /\ lastMsg = "QUERY_SPREAD" /\ lastPhase = "AWAITING_SPREAD"

QuotesPresent == known.bid # NoneVal /\ known.ask # NoneVal

\* The last handler placed an order of a quantity the exchange would accept.
PlacedOrder == \E k \in 1..Len(emitted) : emitted[k].quantity >= 1

\* C1: in every reachable state of every agent at most one spread request is
\* issued and not yet answered.
C1_AtMostOneOutstanding == Len(outstanding) <= 1

\* C2: the response to a request that was followed by a later wakeup (a late
\* response) places no order when it is delivered (stated for orders of
\* quantity >= 1, so that a violation does not rest on a zero-size order).
C2_LateResponseDropped ==
    (lastOp = "receive" /\ lastMsg = "QUERY_SPREAD" /\ lastLate) => ~PlacedOrder

\* C3: a QUERY_SPREAD response handled in AWAITING_SPREAD while the market is
\* known closed emits no order, in all three agents (stated for orders of
\* quantity >= 1, so that a violation does not rest on a zero-size order).
C3_NoOrderWhenClosed ==
    (SpreadResponseHandled /\ mkt_closed) => ~PlacedOrder

\* C4 (as stated): every wakeup of the Ladder or Directional agent at which the
\* market hours are known schedules the next wakeup, also when the market is
\* closed and the closing price is recorded.
C4_AlwaysSchedules ==
    (kind \in {"Ladder", "Directional"} /\ lastOp = "wakeup"
        /\ mkt_open /\ mkt_close)
    => wake_delay # "none"

\* C4 (amended): a wakeup of the Ladder or Directional agent at which the
\* market hours are known schedules the next wakeup exactly when it is not the
\* case that the market is closed with the closing price recorded; the wakeup
\* on the closed-without-closing-price branch does schedule it.
C4_SchedulesUnlessQuiescent ==
    (kind \in {"Ladder", "Directional"} /\ lastOp = "wakeup"
        /\ mkt_open /\ mkt_close)
    => (wake_delay # "none" <=> ~(mkt_closed /\ close_recorded))

C4_Witness ==
    /\ kind = "Ladder" /\ lastOp = "wakeup" /\ mkt_open /\ mkt_close
    /\ mkt_closed /\ ~close_recorded
    /\ wake_delay # "none" /\ state = "AWAITING_SPREAD"

\* C5: one placeOrder of the Ladder agent emits exactly 198 limit orders: for
\* each offset i in 1..99 a buy at p - i and a sell at p + i (p the integral
\* estimate, so floor(p) = p), both of quantity min(i+1, 5); no price equals
\* p, every buy price is below every sell price, quantities are 2,3,4,5,5,...
C5_LadderShape ==
    (kind = "Ladder" /\ emitted # <<>>) =>
        /\ Len(emitted) = 198
        /\ \A i \in 1..99 :
            LET qty == IF i + 1 < 5 THEN i + 1 ELSE 5
            IN  /\ emitted[2 * i - 1] = [type |-> "LIMIT", quantity |-> qty,
                        is_buy_order |-> TRUE, limit_price |-> obs_t - i]
                /\ emitted[2 * i] = [type |-> "LIMIT", quantity |-> qty,
                        is_buy_order |-> FALSE, limit_price |-> obs_t + i]
        /\ \A k \in 1..Len(emitted) : emitted[k].limit_price # obs_t
        /\ \A j, k \in 1..Len(emitted) :
            (emitted[j].is_buy_order /\ ~emitted[k].is_buy_order)
                => emitted[j].limit_price < emitted[k].limit_price
        /\ <<emitted[1].quantity, emitted[3].quantity, emitted[5].quantity,
             emitted[7].quantity, emitted[9].quantity, emitted[197].quantity>>
           = <<2, 3, 4, 5, 5, 5>>

C5_Witness ==
    /\ kind = "Ladder" /\ SpreadResponseHandled /\ ~mkt_closed
    /\ obs_t = 100 /\ Len(emitted) = 198 /\ state = "AWAITING_WAKEUP"

\* C6: a decision cycle of the Directional agent with both quotes present
\* emits one market buy of round(askSize^0.35) if the estimate is above the
\* mid, one market sell of round(bidSize^0.35) if below, nothing if equal;
\* never more than one order per handler.
C6_DirectionalRule ==
    kind = "Directional" =>
        /\ Len(emitted) <= 1
        /\ (SpreadResponseHandled /\ ~mkt_closed /\ QuotesPresent) =>
            /\ (2 * obs_t > known.bid + known.ask) =>
                emitted = <<[type |-> "MARKET", quantity |-> PowRound(known.asksize),
                             is_buy_order |-> TRUE, limit_price |-> 0]>>
            /\ (2 * obs_t < known.bid + known.ask) =>
                emitted = <<[type |-> "MARKET", quantity |-> PowRound(known.bidsize),
                             is_buy_order |-> FALSE, limit_price |-> 0]>>
            /\ (2 * obs_t = known.bid + known.ask) => emitted = <<>>

C6_Witness ==
    /\ kind = "Directional" /\ SpreadResponseHandled /\ ~mkt_closed
    /\ known = [bid |-> 99, bidsize |-> 0, ask |-> 101, asksize |-> MaxDepth]
    /\ obs_t = 104
    /\ Len(emitted) = 1 /\ emitted[1].is_buy_order /\ emitted[1].quantity = 2

\* C7: every order handed to placeLimitOrder or placeMarketOrder has a
\* quantity of at least 1, also for a snapshot with a resting size of 0.
C7_QuantityAtLeastOne ==
    \A k \in 1..Len(emitted) : emitted[k].quantity >= 1

\* C8: a response handled in AWAITING_SPREAD with the market open and the best
\* bid or best ask absent places no order and finishes the cycle in
\* AWAITING_WAKEUP without an error, in the Directional and Momentum agents.
C8_MissingQuoteSkipped ==
    (kind \in {"Directional", "Momentum"} /\ SpreadResponseHandled
        /\ ~mkt_closed /\ ~QuotesPresent)
    => (emitted = <<>> /\ ~crashed /\ state = "AWAITING_WAKEUP")

\* C9: the Momentum window never holds more than long_duration samples; while
\* at most long_duration samples were observed no order has been placed and
\* the window is all of them; afterwards the window is exactly the
\* long_duration most recent samples in arrival order.
C9_WindowBound ==
    kind = "Momentum" =>
        /\ Len(mid_list) <= LongDuration
        /\ Len(history) <= LongDuration =>
            (emitted = <<>> /\ ~ordersEver /\ mid_list = history)
        /\ Len(history) > LongDuration =>
            mid_list = SubSeq(history, Len(history) - LongDuration + 1, Len(history))

C9_Witness ==
    /\ kind = "Momentum" /\ Len(history) = LongDuration + 2
    /\ Len(mid_list) = LongDuration /\ emitted # <<>>

\* An evaluated Momentum cycle: the response was handled in AWAITING_SPREAD
\* with both quotes present and more than long_duration samples observed.
MomEvaluated ==
    /\ kind = "Momentum" /\ SpreadResponseHandled
    /\ Truthy(known.bid) /\ Truthy(known.ask)
    /\ Len(history) > LongDuration

\* Sums of the doubled mid-prices of the short and the long window.
ShortSum2 ==
    SumSeq(SubSeq(mid_list, Len(mid_list) - ShortDuration + 1, Len(mid_list)))
LongSum2 == SumSeq(mid_list)

MomSell == <<[type |-> "MARKET", quantity |-> PowRound(known.bidsize),
              is_buy_order |-> FALSE, limit_price |-> 0]>>
MomBuy == <<[type |-> "MARKET", quantity |-> PowRound(known.asksize),
             is_buy_order |-> TRUE, limit_price |-> 0]>>

MaReturned == call.fn = "ma" /\ result.done

\* The sum of the n entries of a that start at entry k, added up directly.
WindowSum(a, k, n) == SumSeq([i \in 1..n |-> a[k + i - 1]])

\* C11: for a of length >= n >= 1, ma(a, n) has len(a) - n + 1 entries, its
\* k-th entry is the mean of a[k..k+n-1] (here: n times the entry is the sum of
\* those n values), and so its last entry is the mean of the last n values.
C11_MaIsWindowMean ==
    MaReturned =>
        LET a == call.a
            n == call.n
            ret == result.ret
        IN  /\ Len(ret) = Len(a) - n + 1
            /\ \A k \in 1..Len(ret) : ret[k] = WindowSum(a, k, n)
            /\ ret[Len(ret)] = WindowSum(a, Len(a) - n + 1, n)

\* A window of 2 slides three times over unequal values.
C11_Witness ==
    /\ MaReturned
    /\ call.a = <<0, 199, 206, 199>> /\ call.n = 2
    /\ result.ret = <<199, 405, 405>>

\* The last handler called the Ladder's getWakeFrequency: its wakeup, or the
\* base class when the market hours became known.
LadderCalledWakeFrequency == kind = "Ladder" /\ wake_delay # "none"

\* C12: the Ladder's getWakeFrequency returns 10 ns on its first call,
\* 300000000000 ns on its second and 30000000000000 ns on every later call,
\* whatever the market state, the phase and the fill / cancel flags are.
C12_StagedWakePolicy ==
    LadderCalledWakeFrequency =>
        wake_delay = (CASE wf_calls = 1 -> "10ns"
                        [] wf_calls = 2 -> "300000000000ns"
                        [] OTHER -> "30000000000000ns")

\* A third or later call, made on the wakeup that requests the closing spread.
C12_Witness ==
    /\ LadderCalledWakeFrequency /\ lastOp = "wakeup"
    /\ wf_calls >= 3 /\ wake_delay = "30000000000000ns"
    /\ mkt_closed /\ state = "AWAITING_SPREAD"

\* This step is a wakeup handler (a receiveMessage resets lastOp, and the
\* exchange's closing changes exchClosed).
WakeupStep == lastOp' = "wakeup" /\ exchClosed' = exchClosed

\* This step is a receiveMessage handler.
ReceiveStep == lastOp' = "receive" /\ exchClosed' = exchClosed

\* This step is a handler of the agent, which reports its orders in emitted.
HandlerStep == WakeupStep \/ ReceiveStep

\* This step places no order.
NoOrderPlaced == HandlerStep => emitted' = <<>>

\* The wakeup handled now is an activation: hours known, market not closed.
Activation == WakeupStep /\ mkt_open /\ mkt_close /\ ~mkt_closed

\* C13: once the Ladder's cancel flag is true, its next activation issues a
\* cancel request, places no order, issues no spread request and leaves the
\* agent in AWAITING_WAKEUP.
C13_CancelOnNextActivation ==
    [][(kind = "Ladder" /\ cancel /\ Activation) =>
          /\ cancels' >= 1
          /\ emitted' = <<>>
          /\ Len(outstanding') = Len(outstanding)
          /\ state' = "AWAITING_WAKEUP"]_vars

\* C14: from a constructed Ladder (fill true, cancel false) no state is
\* reached in which fill and cancel are both true.
C14_FlagsNeverBothTrue == kind = "Ladder" => ~(fill /\ cancel)

\* The Ladder's fill and cancel flags are both true.
BothFlags == kind = "Ladder" /\ fill /\ cancel

\* No response can make the Ladder place orders any more: it is not waiting
\* for a spread, or it knows the market has closed.
LockedOut == BothFlags /\ (state # "AWAITING_SPREAD" \/ mkt_closed)

HoursUnknownWakeup == WakeupStep /\ ~(mkt_open /\ mkt_close)

\* What such a wakeup leaves alone: no wakeup scheduled by the agent, no
\* spread request, no order, no cancel, schedule stages and flags unchanged.
NothingDone ==
    /\ wake_delay' = "none" /\ pendingWakeups' = pendingWakeups - 1
    /\ Len(outstanding') = Len(outstanding)
    /\ emitted' = <<>> /\ cancels' = 0
    /\ UNCHANGED <<first_run, second_run, wf_calls, fill, cancel>>

\* C16 as stated: a wakeup with the market open or close time unknown leaves
\* each of the three agents INACTIVE and does nothing else.
C16_HoursUnknownInactive ==
    [][HoursUnknownWakeup => (state' = "INACTIVE" /\ NothingDone)]_vars

\* C16, amended: such a wakeup leaves the Ladder and the Directional agent
\* INACTIVE and the Momentum agent in the phase it was in, and does nothing
\* else.
C16_HoursUnknownNoAction ==
    [][HoursUnknownWakeup =>
          /\ state' = (IF kind = "Momentum" THEN state ELSE "INACTIVE")
          /\ NothingDone]_vars

\* The Momentum agent after its wakeup with the hours unknown.
C16_Witness ==
    /\ kind = "Momentum" /\ lastOp = "wakeup" /\ ~mkt_open /\ ~mkt_close
    /\ state = "AWAITING_WAKEUP" /\ pendingWakeups = 0
    /\ hoursReq = {"WHEN_MKT_OPEN", "WHEN_MKT_CLOSE"}

\* The message handled now is anything but a QUERY_SPREAD response received
\* in AWAITING_SPREAD.
OtherCombination ==
    ReceiveStep /\ ~(state = "AWAITING_SPREAD" /\ lastMsg' = "QUERY_SPREAD")

\* The agent's phase, flags, counters and window are unchanged, and it
\* emits no order, no cancel and no spread request.
AgentUntouched ==
    /\ state' = state
    /\ UNCHANGED <<fill, cancel, trading, order_size, order_count,
                   buy_order_count, obs_t, mid_list, ma_short, ma_long,
                   bidvol, askvol, history>>
    /\ emitted' = <<>> /\ cancels' = 0
    /\ Len(outstanding') <= Len(outstanding)

\* No wakeup is scheduled and getWakeFrequency is not called.
NoWakeupScheduled ==
    /\ wake_delay' = "none" /\ pendingWakeups' = pendingWakeups
    /\ UNCHANGED <<first_run, second_run, wf_calls>>

\* The message handled now makes both market times known for the first time.
HoursBecomeKnown == (mkt_open' /\ mkt_close') /\ ~(mkt_open /\ mkt_close)

\* The base class schedules the market-open wakeup, with the delay of the
\* agent's getWakeFrequency: for the Ladder its first stage.
MarketOpenWakeup ==
    /\ pendingWakeups' = pendingWakeups + 1
    /\ wake_delay' = (IF kind = "Ladder" THEN "10ns"
                      ELSE StochasticWakeFrequency)
    /\ kind = "Ladder" => (first_run /\ ~first_run' /\ second_run' = second_run)

\* C17 as stated: for every other combination of phase and message
\* receiveMessage leaves the agent untouched and no wakeup is scheduled.
C17_OtherMessagesIgnored ==
    [][OtherCombination => (AgentUntouched /\ NoWakeupScheduled)]_vars

\* C17, amended: for every other combination receiveMessage leaves the agent
\* untouched; the only wakeup scheduled is the base class's market-open
\* wakeup, when the message makes both market times known.
C17_OnlyBookkeeping ==
    [][OtherCombination =>
          /\ AgentUntouched
          /\ IF HoursBecomeKnown THEN MarketOpenWakeup
                                  ELSE NoWakeupScheduled]_vars

\* A late spread response reaches the Directional agent after it has placed
\* its order and returned to AWAITING_WAKEUP: nothing happens.
C17_Witness ==
    /\ kind = "Directional" /\ lastOp = "receive" /\ lastMsg = "QUERY_SPREAD"
    /\ lastPhase = "AWAITING_WAKEUP" /\ state = "AWAITING_WAKEUP"
    /\ order_count = 1 /\ emitted = <<>> /\ ~mkt_closed

\* The wakeup handled now finds the market closed, hours known.
ClosedWakeup ==
    /\ kind \in {"Ladder", "Directional"}
    /\ WakeupStep /\ mkt_open /\ mkt_close /\ mkt_closed

\* C18: a wakeup of the Ladder or the Directional agent with the market
\* closed and no closing price recorded issues one spread request and enters
\* AWAITING_SPREAD, without cancelling, changing the cancel flag or placing
\* orders; no handler places an order once the agent knows the market is
\* closed, and once the closing price is recorded no spread request is
\* issued any more (so with the response recorded before the next wakeup,
\* the request is made exactly once).
C18_CloseCapture ==
    [][/\ (ClosedWakeup /\ ~close_recorded) =>
            /\ state' = "AWAITING_SPREAD"
            /\ outstanding' = Append(MarkLate(outstanding), FALSE)
            /\ cancels' = 0 /\ cancel' = cancel
            /\ emitted' = <<>>
       /\ (kind \in {"Ladder", "Directional"} /\ mkt_closed) => NoOrderPlaced
       /\ (kind \in {"Ladder", "Directional"} /\ close_recorded) =>
            /\ Len(outstanding') <= Len(outstanding)
            /\ close_recorded'
            /\ WakeupStep => (state' = "INACTIVE" /\ wake_delay' = "none")]_vars

\* The Ladder has placed its orders, captured the closing price and handled
\* the wakeup after it: nothing is requested or scheduled any more.
C18_Witness ==
    /\ kind = "Ladder" /\ ordersEver /\ mkt_closed /\ close_recorded
    /\ lastOp = "wakeup" /\ state = "INACTIVE"
    /\ outstanding = <<>> /\ pendingWakeups = 0

\* C19: an agent that is an instance of exactly its base-strategy class is
\* always in one of INACTIVE, AWAITING_WAKEUP, AWAITING_SPREAD; it never
\* enters ACTIVE.
C19_NeverActive ==
    kind \in Kinds =>
        state \in {"INACTIVE", "AWAITING_WAKEUP", "AWAITING_SPREAD"}

\* The strategy branch of wakeup was taken: the type test chose the spread
\* request.
C19_Witness ==
    /\ kind \in {"Ladder", "Directional"} /\ lastOp = "wakeup"
    /\ ~mkt_closed /\ state = "AWAITING_SPREAD"
    /\ outstanding = <<FALSE>> /\ (kind = "Ladder" => cancel)

\* A direct call of the Directional agent's cancelOrders has returned.
CancelOrdersReturned == call.fn = "cancelOrders" /\ result.done

\* C20: no handler of the Directional or the Momentum agent issues a cancel
\* request; cancelOrders of the Directional agent, when called, issues
\* exactly one cancel request for each outstanding order and returns true,
\* and with no outstanding order issues none and returns false.
C20_CancelOnlyWhenInvoked ==
    /\ kind \in {"Directional", "Momentum"} => cancels = 0
    /\ CancelOrdersReturned =>
          LET orders == call.orders
              requests == result.requests
          IN  /\ Len(requests) = Len(orders)
              /\ \A i \in 1..Len(orders) :
                    Cardinality({j \in 1..Len(requests) :
                                    requests[j] = orders[i]}) = 1
              /\ result.ret = (orders # <<>>)

\* cancelOrders was called with three outstanding orders.
C20_Witness ==
    /\ CancelOrdersReturned
    /\ call.orders = <<3, 1, 2>>
    /\ result.requests = <<3, 1, 2>> /\ result.ret

\* A direct call of getOrderSize has returned.
SizerReturned == call.fn = "getOrderSize" /\ result.done

\* C21: an agent operation draws only from the agent's private stream; here
\* for getOrderSize: it takes no draw from the global stream.
C21_PrivateStreamOnly == SizerReturned => result.global_draws = 0

\* The candidate size of the returned call.
SizerCandidate == Candidate(call.x)

FirstActivation == kind = "Ladder" /\ Activation /\ ~trading

\* That wakeup issues one spread request and enters AWAITING_SPREAD.
FirstActivationRequests ==
    /\ outstanding' = Append(MarkLate(outstanding), FALSE)
    /\ state' = "AWAITING_SPREAD"
    /\ emitted' = <<>> /\ cancels' = 0

\* The Ladder handles the response it waits for, the market still open.
LadderResponse ==
    /\ kind = "Ladder" /\ ReceiveStep
    /\ state = "AWAITING_SPREAD" /\ lastMsg' = "QUERY_SPREAD" /\ ~mkt_closed'

\* The handler took one oracle sample and emitted the 198 orders around it.
LadderCycleDone ==
    /\ obs_t' \in OracleSamples
    /\ Len(emitted') = 2 * LadderLevels
    /\ \A i \in 1..LadderLevels :
          /\ emitted'[2 * i - 1].is_buy_order
          /\ emitted'[2 * i - 1].limit_price = obs_t' - i
          /\ ~emitted'[2 * i].is_buy_order
          /\ emitted'[2 * i].limit_price = obs_t' + i
    /\ state' = "AWAITING_WAKEUP"

\* C22 as stated: the first activation schedules the next wakeup 10 ns
\* later, requests the spread and enters AWAITING_SPREAD; the response, with
\* the market still open, makes the agent emit the 198-order ladder around
\* one oracle sample and enter AWAITING_WAKEUP.
C22_CycleNextAtTenNs ==
    [][/\ FirstActivation => (wake_delay' = "10ns" /\ FirstActivationRequests)
       /\ LadderResponse => LadderCycleDone]_vars

\* C22, amended: as stated, but the first activation schedules the next
\* wakeup 300000000000 ns later: the 10 ns stage was used for the wakeup that
\* delivers this activation.
C22_CycleNextAtSecondStage ==
    [][/\ FirstActivation =>
            /\ wake_delay' = "300000000000ns" /\ wf_calls' = 2
            /\ pendingWakeups' = pendingWakeups
            /\ FirstActivationRequests
       /\ LadderResponse => LadderCycleDone]_vars

\* The whole cycle has run: the ladder is out around the sample 104 and the
\* wakeup scheduled by the first activation is pending.
C22_Witness ==
    /\ kind = "Ladder" /\ SpreadResponseHandled /\ ~lastLate /\ ~mkt_closed
    /\ obs_t = 104 /\ Len(emitted) = 2 * LadderLevels
    /\ state = "AWAITING_WAKEUP" /\ wf_calls = 2 /\ pendingWakeups = 1

\* The agent carries belief state (the Momentum agent has none).
HasBelief == kind \in {"Ladder", "Directional"}

LadderRequests ==
    /\ kind = "Ladder" /\ WakeupStep
    /\ outstanding' = Append(MarkLate(outstanding), FALSE)

\* C25: while the market is open the Ladder issues at most one spread request
\* and invokes placeOrder at most once: the activation that requests the
\* spread sets the cancel flag, which stays set; with the flag set no
\* activation requests a spread or places orders, orders are placed only by
\* the response to that request, and never after orders have been placed.
C25_SingleCycle ==
    [][kind = "Ladder" =>
          /\ (LadderRequests /\ ~mkt_closed) => (~cancel /\ cancel')
          /\ cancel => cancel'
          /\ (cancel /\ Activation) =>
                /\ outstanding' = MarkLate(outstanding)
                /\ emitted' = <<>>
          /\ (HandlerStep /\ emitted' # <<>>) =>
                (cancel /\ ~ordersEver /\ ordersEver' /\ lastOp' = "receive")
          /\ ordersEver => (ordersEver' /\ NoOrderPlaced)]_vars

\* After the ladder was placed, a later activation with the market open has
\* requested nothing and placed nothing.
C25_Witness ==
    /\ kind = "Ladder" /\ cancel /\ ordersEver /\ ~mkt_closed
    /\ lastOp = "wakeup" /\ lastPhase = "AWAITING_WAKEUP"
    /\ state = "INACTIVE" /\ outstanding = <<>> /\ emitted = <<>>

LadderOrDirectional == kind \in {"Ladder", "Directional"}

\* The wakeup reaches setWakeup: market hours known, and not (market closed
\* with the closing price recorded).
ReachesSetWakeup ==
    mkt_open /\ mkt_close /\ ~(mkt_closed /\ close_recorded)

\* A handled wakeup consumes one pending wakeup and schedules one new
\* wakeup exactly when it reaches setWakeup.
WakeupConsumesAndSchedules ==
    WakeupStep =>
        /\ pendingWakeups >= 1
        /\ pendingWakeups' =
              pendingWakeups - 1 + (IF ReachesSetWakeup THEN 1 ELSE 0)
        /\ (wake_delay' # "none") <=> ReachesSetWakeup

\* C26 as stated: for the Ladder and the Directional agent a handled wakeup
\* consumes one pending wakeup and schedules exactly one new one when the
\* hours are known and it is not closed-with-closing-price, none otherwise;
\* receiveMessage schedules none; at most one wakeup is pending in every
\* reachable state.
C26_ReceiveSchedulesNone ==
    /\ [](LadderOrDirectional => pendingWakeups <= 1)
    /\ [][LadderOrDirectional =>
            /\ WakeupConsumesAndSchedules
            /\ ReceiveStep => pendingWakeups' = pendingWakeups]_vars

\* C26, amended: as above, except that receiveMessage schedules one wakeup,
\* through the base class, when the message handled makes both market times
\* known for the first time, which happens with no wakeup pending; no other
\* message schedules a wakeup. At most one wakeup is pending in every
\* reachable state.
C26_AtMostOnePending ==
    /\ [](LadderOrDirectional => pendingWakeups <= 1)
    /\ [][LadderOrDirectional =>
            /\ WakeupConsumesAndSchedules
            /\ ReceiveStep =>
                  IF HoursBecomeKnown
                  THEN pendingWakeups = 0 /\ pendingWakeups' = 1
                  ELSE /\ pendingWakeups' = pendingWakeups
                       /\ wake_delay' = "none"]_vars

\* A wakeup of the Directional agent that has placed an order before has
\* consumed the pending wakeup and scheduled the next one.
C26_Witness ==
    /\ kind = "Directional" /\ lastOp = "wakeup" /\ ordersEver
    /\ ReachesSetWakeup /\ wake_delay # "none" /\ pendingWakeups = 1

\* The agent knows the market is closed and holds the closing price.
ClosedAndRecorded == LadderOrDirectional /\ mkt_closed /\ close_recorded

\* C27: once the market is closed and the closing price is recorded, every
\* later wakeup of the Ladder or the Directional agent leaves the phase
\* INACTIVE and emits no spread request, order, cancel or wakeup; with every
\* pending wakeup eventually delivered, the agent then reaches a state with
\* no pending wakeup and stays there with phase INACTIVE.
C27_TerminalQuiescence ==
    /\ [][ClosedAndRecorded =>
            /\ ClosedAndRecorded'
            /\ WakeupStep =>
                  /\ state' = "INACTIVE"
                  /\ outstanding' = MarkLate(outstanding)
                  /\ emitted' = <<>> /\ cancels' = 0
                  /\ wake_delay' = "none"
                  /\ pendingWakeups' = pendingWakeups - 1]_vars
    /\ ClosedAndRecorded ~> [](pendingWakeups = 0 /\ state = "INACTIVE")

\* The Directional agent has traded, recorded the closing price and handled
\* its last wakeup: nothing is pending and the phase is INACTIVE.
C27_Witness ==
    /\ kind = "Directional" /\ ordersEver /\ mkt_closed /\ close_recorded
    /\ lastOp = "wakeup" /\ wake_delay = "none"
    /\ pendingWakeups = 0 /\ state = "INACTIVE"

\* The Momentum agent handles a QUERY_SPREAD response in AWAITING_SPREAD.
MomSpreadResponse ==
    ReceiveStep /\ state = "AWAITING_SPREAD" /\ lastMsg' = "QUERY_SPREAD"

\* The step schedules a wakeup.
SchedulesWakeup ==
    \/ pendingWakeups' > pendingWakeups
    \/ HandlerStep /\ wake_delay' # "none"

\* What holds of every step of the Momentum agent whoever schedules: one
\* setWakeup per spread response handled in AWAITING_SPREAD, none inside
\* wakeup(), and while no response is handled the agent stays in
\* AWAITING_SPREAD with no pending wakeup.
MomSchedule ==
    /\ MomSpreadResponse =>
          /\ pendingWakeups' = pendingWakeups + 1
          /\ wake_delay' = StochasticWakeFrequency
          /\ state' = "AWAITING_WAKEUP"
    /\ WakeupStep =>
          (pendingWakeups' = pendingWakeups - 1 /\ wake_delay' = "none")
    /\ state = "AWAITING_SPREAD" =>
          /\ pendingWakeups = 0
          /\ ~MomSpreadResponse =>
                (state' = "AWAITING_SPREAD" /\ pendingWakeups' = 0)

\* C28 as stated: the Momentum agent schedules a wakeup only while handling
\* a QUERY_SPREAD response in AWAITING_SPREAD, exactly one per such
\* response, and never inside wakeup(); while no spread response is
\* delivered it stays in AWAITING_SPREAD with no pending wakeup.
C28_OnlyOnSpreadResponse ==
    [][kind = "Momentum" =>
          /\ SchedulesWakeup => MomSpreadResponse
          /\ MomSchedule]_vars

\* C28, amended: the same, except that the base-class part of
\* receiveMessage schedules the market-open wakeup, once, when the message
\* handled makes both market times known for the first time.
C28_OnSpreadResponseOrMarketOpen ==
    [][kind = "Momentum" =>
          /\ SchedulesWakeup =>
                \/ MomSpreadResponse
                \/ /\ ReceiveStep /\ HoursBecomeKnown
                   /\ pendingWakeups = 0 /\ pendingWakeups' = 1
          /\ MomSchedule]_vars

\* A response without quotes, handled in AWAITING_SPREAD, has placed no
\* order and scheduled the next wakeup.
C28_Witness ==
    /\ kind = "Momentum" /\ SpreadResponseHandled /\ ~QuotesPresent
    /\ emitted = <<>> /\ state = "AWAITING_WAKEUP"
    /\ pendingWakeups = 1 /\ wake_delay = StochasticWakeFrequency

\* A decision cycle of the Directional agent: placeOrder runs on a response
\* handled in AWAITING_SPREAD, market open, both quotes present.
DirCycle ==
    /\ ReceiveStep /\ state = "AWAITING_SPREAD" /\ lastMsg' = "QUERY_SPREAD"
    /\ ~mkt_closed'
    /\ known'.bid # NoneVal /\ known'.ask # NoneVal

\* Twice the mid-price the cycle compares its estimate with.
TwiceMid == known.bid + known.ask

\* C29: for the Directional agent 0 <= buy_order_count <= order_count in
\* every reachable state; a decision cycle whose estimate is above the mid
\* adds one to both counters, one whose estimate is below the mid adds one
\* to order_count only, one whose estimate equals the mid changes neither,
\* and no other step changes them (so the counters never decrease and count
\* the cycles that chose a direction and those that chose buy); an order
\* has been sent exactly when order_count is positive.
C29_DirectionalCounters ==
    /\ [](kind = "Directional" =>
            /\ 0 <= buy_order_count /\ buy_order_count <= order_count
            /\ (order_count > 0) <=> ordersEver)
    /\ [][kind = "Directional" =>
            /\ (DirCycle /\ 2 * obs_t' > TwiceMid') =>
                  /\ order_count' = order_count + 1
                  /\ buy_order_count' = buy_order_count + 1
                  /\ Len(emitted') = 1 /\ emitted'[1].is_buy_order
            /\ (DirCycle /\ 2 * obs_t' < TwiceMid') =>
                  /\ order_count' = order_count + 1
                  /\ buy_order_count' = buy_order_count
                  /\ Len(emitted') = 1 /\ ~emitted'[1].is_buy_order
            /\ (DirCycle /\ 2 * obs_t' = TwiceMid') =>
                  /\ UNCHANGED <<order_count, buy_order_count>>
                  /\ emitted' = <<>>
            /\ ~DirCycle => UNCHANGED <<order_count, buy_order_count>>]_vars

\* After one buy, a cycle whose estimate equals the mid has left both
\* counters at one.
C29_Witness ==
    /\ kind = "Directional" /\ SpreadResponseHandled /\ QuotesPresent
    /\ ~mkt_closed /\ state = "AWAITING_WAKEUP"
    /\ 2 * obs_t = TwiceMid /\ emitted = <<>>
    /\ order_count = 1 /\ buy_order_count = 1

====
